---------------------------- MODULE Spec2Model ----------------------------
(***************************************************************************)
(* State-machine model of docker-poc.py: a craft-parts driver whose stage  *)
(* step is satisfied by a file-system layer extracted from a container     *)
(* image.  One behaviour is a sequence of invocations of the program; an   *)
(* invocation walks main -> process_parts -> _do_clean | _do_step, with    *)
(* build_stage_layer as the prologue of the execution context and          *)
(* create_final_image as its epilogue.                                     *)
(*                                                                         *)
(* Directories hold the files that come from the image layer; a package    *)
(* installs one file, named by the package.  What parts themselves put     *)
(* into stage and prime is the lifecycle manager's business and is not     *)
(* part of the directory contents modelled here.                           *)
(***************************************************************************)
EXTENDS Integers, Sequences, FiniteSets, TLC

\* Number of distinct stage packages that part specifications draw from.
MaxPkgs == 2

\* The package sets the parts file can resolve to: the first n packages, for
\* every n, and the last package alone (a set no other one contains or is
\* contained in, the empty and the full set apart).
PackageSets == {1..n : n \in 0..MaxPkgs} \cup {{MaxPkgs}}

\* The parts the specification file declares, and a name it does not declare.
DeclaredParts == {"p"}
PartArgs == {{}, {"p"}, {"bogus"}}

Commands == {"", "pull", "build", "stage", "prime", "clean"}

PULL == 1
BUILD == 2
STAGE == 3
PRIME == 4

VARIABLES
    pc,         \* position of the running invocation, "idle" between invocations
    options,    \* argparse namespace of the running invocation
    part_data,  \* package set the parts file resolves to in this invocation
    lf,         \* state persisted by the lifecycle manager
    layer,      \* _LAYER_DIR
    layer_pkgs, \* package set of the invocation that created _LAYER_DIR
    stage,      \* project_info.stage_dir
    prime,      \* project_info.prime_dir
    archive,    \* image_data.tar as this invocation wrote it
    actions,    \* the planned action list
    nexta,      \* index of the next action of the plan
    ctx,        \* TRUE while the execution context is held
    log,        \* what the running invocation has done, in order
    raised,     \* exception that ended the invocation, "none" otherwise
    exitCode,   \* exit status of the invocation, -1 while it is running
    pre,        \* disk and lifecycle state when the running invocation started
    prev        \* summary of the invocation before the running one

vars == <<pc, options, part_data, lf, layer, layer_pkgs, stage, prime, archive, actions,
          nexta, ctx, log, raised, exitCode, pre, prev>>

----------------------------------------------------------------------------
\* Directories and the image archive

NoDir == [present |-> FALSE, files |-> {}]

Dir(fs) == [present |-> TRUE, files |-> fs]

\* Path.is_dir()
IsDir(d) == d.present

\* image_data.tar: what the archive holds under the name manifest.json (a
\* regular file, another kind of member, or nothing), the layer lists of the
\* manifest's entries, and the files of every layer tar.
NoArchive ==
    [written |-> FALSE, member |-> "absent", manifest |-> <<>>, content |-> <<>>]

\* The image the engine builds from "FROM ubuntu:series / RUN apt install pkgs"
\* and exports: one manifest entry listing the base layer and the layer of the
\* RUN directive, whose delta is the files of the installed packages.
ImageData(pkgs) ==
    [written  |-> TRUE,
     member   |-> "file",
     manifest |-> << <<1, 2>> >>,
     content  |-> << {0}, pkgs >>]

\* Members of a layer tar in archive order.
RECURSIVE Entries(_)
Entries(fs) ==
    IF fs = {} THEN <<>>
    ELSE LET m == CHOOSE x \in fs : \A y \in fs : x <= y
         IN  <<m>> \o Entries(fs \ {m})

\* Variant that takes the first layer of the entry.
TopLayerFirst(image) == image.manifest[1][1]

\* manifest[0]["Layers"][-1]
TopLayer(image) ==
    LET layers == image.manifest[1] IN layers[Len(layers)]

\* extract_stage_layer's loop after k members were extracted into an absent
\* destination: tarfile creates the destination with the first member.
Extracted(image, k) ==
    LET es == Entries(image.content[TopLayer(image)])
    IN  IF k = 0 THEN NoDir
        ELSE Dir({es[i] : i \in 1..k})

NumEntries(image) == Cardinality(image.content[TopLayer(image)])

\* shutil.copytree(src, dst, copy_function=os.link): scandir(src) needs src,
\* makedirs(dst) needs dst not to exist, then every file is linked; a failing
\* os.link is collected and raised as shutil.Error once the walk is over.
CopyTree(src, dst, linkOK) ==
    IF ~IsDir(src) THEN [dir |-> dst, ok |-> FALSE, err |-> "FileNotFoundError"]
    ELSE IF IsDir(dst) THEN [dir |-> dst, ok |-> FALSE, err |-> "FileExistsError"]
    ELSE IF linkOK \/ src.files = {}
         THEN [dir |-> Dir(src.files), ok |-> TRUE, err |-> "none"]
    ELSE [dir |-> Dir({}), ok |-> FALSE, err |-> "link_failed"]

----------------------------------------------------------------------------
\* Lifecycle manager, at the interface the program uses

NoState == [step |-> 0, assets |-> {}]

\* lf.get_state_assets("stage-packages", step=Step.PULL)
GetStateAssets(l) == l.assets

\* Variants of the comparison: one that always sees a change, one that never does.
PackagesChangedAlways(deps, recorded) == TRUE

PackagesChangedNever(deps, recorded) == FALSE

\* set(stage_deps) != set(state_stage_deps)
PackagesChanged(deps, recorded) == deps # recorded

\* _parse_step, with Step.PRIME when no command was given
ParseStep(name) ==
    CASE name = "pull"  -> PULL
      [] name = "build" -> BUILD
      [] name = "stage" -> STAGE
      [] OTHER          -> PRIME

\* vars(options).get("parts", [])
PartNames(o) == IF o.command = "" THEN {} ELSE o.parts

ValidParts(ps) == ps \subseteq DeclaredParts

\* lf.plan(target_step, part_names): every step up to the target, skipped
\* when the recorded state already has it.
Plan(l, target) ==
    [s \in 1..target |->
        [step |-> s, type |-> IF s <= l.step THEN "skip" ELSE "run"]]

\* for a in actions: if a.type != ActionType.SKIP
NonSkip(as) == SelectSeq(as, LAMBDA a : a.type # "skip")

\* Variant of main's except clauses with the ValueError clause ahead of the
\* InvalidPartName clause.
ExitCodeOfValueErrorFirst(exc) ==
    CASE exc = "none"                  -> 0
      [] exc = "OSError"               -> 1
      [] exc = "SchemaValidationError" -> 2
      [] exc = "InvalidPartName"       -> 4
      [] exc = "ValueError"            -> 4
      [] OTHER                         -> 1

\* main's except clauses; an exception no clause names ends the interpreter
\* with a traceback and status 1, sys.exit() with status 0.
ExitCodeOf(exc) ==
    CASE exc = "none"                  -> 0
      [] exc = "OSError"               -> 1
      [] exc = "SchemaValidationError" -> 2
      [] exc = "InvalidPartName"       -> 3
      [] exc = "ValueError"            -> 4
      [] OTHER                         -> 1

----------------------------------------------------------------------------
\* Entries of the log: what was done, and to which step where that applies.
Ev(e) == [ev |-> e, step |-> 0]

EvStep(e, s) == [ev |-> e, step |-> s]

Has(e) == \E i \in 1..Len(log) : log[i].ev = e

\* every e2 of the log has an e1 somewhere before it
Before(e1, e2) ==
    \A j \in 1..Len(log) : log[j].ev = e2 => \E i \in 1..(j - 1) : log[i].ev = e1

IsStepCommand(o) == o.command # "clean"

\* What is on disk, and what the lifecycle manager has recorded.
Snapshot(l, ld, lp, st, pr) ==
    [lf |-> l, layer |-> ld, layer_pkgs |-> lp, stage |-> st, prime |-> pr]

NoOptions == [command |-> "", plan_only |-> FALSE, parts |-> {}]

Init ==
    /\ pc = "idle"
    /\ options = NoOptions
    /\ part_data = {}
    /\ lf = NoState
    /\ layer = NoDir
    /\ layer_pkgs = {}
    /\ stage = NoDir
    /\ prime = NoDir
    /\ archive = NoArchive
    /\ actions = <<>>
    /\ nexta = 1
    /\ ctx = FALSE
    /\ log = <<>>
    /\ raised = "none"
    /\ exitCode = -1
    /\ pre = Snapshot(NoState, NoDir, {}, NoDir, NoDir)
    /\ prev = [kind |-> "none", hadLayer |-> FALSE]

\* The invocation ends: the exception, if any, reaches main.
Exit(exc) ==
    /\ pc' = "exit"
    /\ raised' = exc
    /\ exitCode' = ExitCodeOf(exc)

\* What the invocation that just ended was: a step command that ran to the end,
\* a clean of all parts that ran to the end, a step command whose
\* build_stage_layer raised after it had created the cache directory, or
\* anything else.
LastKind ==
    IF exitCode = 0 /\ IsStepCommand(options) /\ ~options.plan_only THEN "step"
    ELSE IF exitCode = 0 /\ options.command = "clean" /\ options.parts = {} THEN "clean"
    ELSE IF Has("miss") /\ IsDir(layer) /\ ~Has("copy_prime") THEN "matfail"
    ELSE "other"

\* _parse_arguments: a new invocation of the program, on whatever package set
\* the parts file resolves to by now.
Invoke ==
    /\ pc = "idle"
    /\ \E c \in Commands, po \in BOOLEAN, ps \in PartArgs, pkgs \in PackageSets :
          /\ c = "" => ps = {}
          /\ options' = [command |-> c, plan_only |-> po, parts |-> ps]
          /\ part_data' = pkgs
    /\ pre' = Snapshot(lf, layer, layer_pkgs, stage, prime)
    /\ pc' = "load"
    /\ log' = <<Ev("start")>>
    /\ raised' = "none"
    /\ exitCode' = -1
    /\ actions' = <<>>
    /\ nexta' = 1
    /\ archive' = NoArchive
    /\ UNCHANGED <<lf, layer, layer_pkgs, stage, prime, ctx, prev>>

\* The process is gone: its memory with it, the disk stays.
ProcessExit ==
    /\ pc = "exit"
    /\ pc' = "idle"
    /\ prev' = [kind |-> LastKind, hadLayer |-> pre.layer.present]
    /\ pre' = Snapshot(lf, layer, layer_pkgs, stage, prime)
    /\ options' = NoOptions
    /\ actions' = <<>>
    /\ nexta' = 1
    /\ log' = <<>>
    /\ raised' = "none"
    /\ exitCode' = -1
    /\ part_data' = {}
    /\ UNCHANGED <<lf, layer, layer_pkgs, stage, prime, archive, ctx>>

----------------------------------------------------------------------------
\* process_parts

\* open(options.file) raises OSError
OpenFails ==
    /\ pc = "load"
    /\ log' = Append(log, Ev("open_failed"))
    /\ Exit("OSError")
    /\ UNCHANGED <<options, part_data, lf, layer, layer_pkgs, stage, prime, archive,
                   actions, nexta, ctx, pre, prev>>

\* craft_parts.LifecycleManager(part_data, ...) rejects the specification
SchemaFails ==
    /\ pc = "load"
    /\ log' = Append(log, Ev("schema_failed"))
    /\ Exit("SchemaValidationError")
    /\ UNCHANGED <<options, part_data, lf, layer, layer_pkgs, stage, prime, archive,
                   actions, nexta, ctx, pre, prev>>

LoadParts ==
    /\ pc = "load"
    /\ pc' = "check"
    /\ log' = Append(log, Ev("loaded"))
    /\ UNCHANGED <<options, part_data, lf, layer, layer_pkgs, stage, prime, archive,
                   actions, nexta, ctx, raised, exitCode, pre, prev>>

\* What lf.clean leaves of a shared directory: the manager either removes the
\* directory with the parts it cleans or leaves it in place.
CleanedDir(d, rm) == IF rm THEN NoDir ELSE d

\* Variant that leaves the directory in place.
RmTreeKeeps(d) == d

\* shutil.rmtree(_LAYER_DIR)
RmTree(d) == NoDir

\* Variant of the check that removes the cache directory and keeps the
\* recorded pull state.
PackageCheckKeepsState ==
    /\ pc = "check"
    /\ IF PackagesChanged(part_data, GetStateAssets(lf))
       THEN /\ layer' = NoDir
            /\ layer_pkgs' = {}
            /\ log' = log \o <<Ev("clean_pull"), Ev("reload_state")>>
                          \o (IF IsDir(layer) THEN <<Ev("rmtree_layer")>> ELSE <<>>)
       ELSE /\ log' = Append(log, Ev("unchanged"))
            /\ UNCHANGED <<layer, layer_pkgs>>
    /\ pc' = "dispatch"
    /\ UNCHANGED <<options, part_data, lf, stage, prime, archive, actions, nexta,
                   ctx, raised, exitCode, pre, prev>>

\* Check if stage packages changed, if so clean the stage step
PackageCheck ==
    /\ pc = "check"
    /\ IF PackagesChanged(part_data, GetStateAssets(lf))
       THEN /\ lf' = NoState
            /\ \E rm \in BOOLEAN :
                  /\ stage' = CleanedDir(stage, rm)
                  /\ prime' = CleanedDir(prime, rm)
            /\ IF IsDir(layer)
               THEN /\ layer' = RmTree(layer)
                    /\ layer_pkgs' = IF IsDir(layer') THEN layer_pkgs ELSE {}
                    /\ log' = log \o <<Ev("clean_pull"), Ev("reload_state"),
                                       Ev("rmtree_layer")>>
               ELSE /\ UNCHANGED <<layer, layer_pkgs>>
                    /\ log' = log \o <<Ev("clean_pull"), Ev("reload_state")>>
       ELSE /\ log' = Append(log, Ev("unchanged"))
            /\ UNCHANGED <<lf, layer, layer_pkgs, stage, prime>>
    /\ pc' = "dispatch"
    /\ UNCHANGED <<options, part_data, archive, actions, nexta, ctx, raised,
                   exitCode, pre, prev>>

----------------------------------------------------------------------------
\* _do_clean

\* Variant of the plan-only check of _do_clean that lets the clean go ahead.
DoCleanPlanOnlyIgnored ==
    /\ pc = "dispatch"
    /\ options.command = "clean"
    /\ options.plan_only
    /\ lf' = NoState
    /\ layer' = NoDir
    /\ layer_pkgs' = {}
    /\ log' = log \o <<Ev("lf_clean"), Ev("rmtree_layer_clean")>>
    /\ Exit("none")
    /\ UNCHANGED <<options, part_data, stage, prime, archive, actions, nexta,
                   ctx, pre, prev>>

\* raise ValueError("Clean operations cannot be planned.")
DoCleanPlanOnly ==
    /\ pc = "dispatch"
    /\ options.command = "clean"
    /\ options.plan_only
    /\ log' = Append(log, Ev("clean_refused"))
    /\ Exit("ValueError")
    /\ UNCHANGED <<options, part_data, lf, layer, layer_pkgs, stage, prime, archive,
                   actions, nexta, ctx, pre, prev>>

\* lf.clean(None, options.parts) with a part the specification does not declare
DoCleanInvalidPart ==
    /\ pc = "dispatch"
    /\ options.command = "clean"
    /\ ~options.plan_only
    /\ ~ValidParts(options.parts)
    /\ log' = Append(log, Ev("invalid_part"))
    /\ Exit("InvalidPartName")
    /\ UNCHANGED <<options, part_data, lf, layer, layer_pkgs, stage, prime, archive,
                   actions, nexta, ctx, pre, prev>>

\* Variant of _do_clean that forgets the cache directory.
DoCleanKeepsCache ==
    /\ pc = "dispatch"
    /\ options.command = "clean"
    /\ ~options.plan_only
    /\ ValidParts(options.parts)
    /\ lf' = NoState
    /\ \E rm \in BOOLEAN :
          /\ stage' = CleanedDir(stage, rm)
          /\ prime' = CleanedDir(prime, rm)
    /\ log' = log
              \o (IF options.parts = {} THEN <<Ev("print_clean_all")>> ELSE <<>>)
              \o <<Ev("lf_clean")>>
    /\ Exit("none")
    /\ UNCHANGED <<options, part_data, layer, layer_pkgs, archive, actions,
                   nexta, ctx, pre, prev>>

\* lf.clean(None, options.parts), then the cache directory is removed
DoClean ==
    /\ pc = "dispatch"
    /\ options.command = "clean"
    /\ ~options.plan_only
    /\ ValidParts(options.parts)
    /\ lf' = NoState
    /\ \E rm \in BOOLEAN :
          /\ stage' = CleanedDir(stage, rm)
          /\ prime' = CleanedDir(prime, rm)
    /\ layer' = IF IsDir(layer) THEN RmTree(layer) ELSE layer
    /\ layer_pkgs' = IF IsDir(layer') THEN layer_pkgs ELSE {}
    /\ log' = log
              \o (IF options.parts = {} THEN <<Ev("print_clean_all")>> ELSE <<>>)
              \o <<Ev("lf_clean")>>
              \o (IF IsDir(layer) THEN <<Ev("rmtree_layer_clean")>> ELSE <<>>)
    /\ Exit("none")
    /\ UNCHANGED <<options, part_data, archive, actions, nexta, ctx, pre, prev>>

----------------------------------------------------------------------------
\* _do_step

\* lf.plan(target_step, part_names) with a part the specification does not declare
PlanInvalidPart ==
    /\ pc = "dispatch"
    /\ IsStepCommand(options)
    /\ ~ValidParts(PartNames(options))
    /\ log' = log \o <<Ev("invalid_part")>>
    /\ Exit("InvalidPartName")
    /\ UNCHANGED <<options, part_data, lf, layer, layer_pkgs, stage, prime, archive,
                   actions, nexta, ctx, pre, prev>>

\* actions = lf.plan(target_step, part_names).  (--update makes the manager
\* refresh its package lists first, which are no part of the state kept here.)
DoStepPlan ==
    /\ pc = "dispatch"
    /\ IsStepCommand(options)
    /\ ValidParts(PartNames(options))
    /\ actions' = Plan(lf, ParseStep(options.command))
    /\ nexta' = 1
    /\ log' = Append(log, Ev("plan"))
    /\ pc' = IF options.plan_only THEN "plan_only" ELSE "enter"
    /\ UNCHANGED <<options, part_data, lf, layer, layer_pkgs, stage, prime, archive, ctx,
                   raised, exitCode, pre, prev>>

\* print(_action_message(a)) for every action that is not a skip
Printed(as) ==
    IF NonSkip(as) = <<>> THEN <<Ev("print_no_actions")>>
    ELSE [i \in 1..Len(NonSkip(as)) |-> EvStep("print", NonSkip(as)[i].step)]

\* Variant of the plan-only branch that prints and goes on to execute.
DoStepPlanOnlyFallsThrough ==
    /\ pc = "plan_only"
    /\ log' = log \o Printed(actions)
    /\ pc' = "enter"
    /\ UNCHANGED <<options, part_data, lf, layer, layer_pkgs, stage, prime,
                   archive, actions, nexta, ctx, raised, exitCode, pre, prev>>

\* if options.plan_only: ... sys.exit()
DoStepPlanOnly ==
    /\ pc = "plan_only"
    /\ log' = log \o Printed(actions)
    /\ Exit("none")
    /\ UNCHANGED <<options, part_data, lf, layer, layer_pkgs, stage, prime, archive,
                   actions, nexta, ctx, pre, prev>>

\* with lf.execution_context(): entering the context runs the prologue
EnterContext ==
    /\ pc = "enter"
    /\ log' = Append(log, Ev("ctx_enter"))
    /\ pc' = "prologue"
    /\ UNCHANGED <<options, part_data, lf, layer, layer_pkgs, stage, prime, archive,
                   actions, nexta, ctx, raised, exitCode, pre, prev>>

----------------------------------------------------------------------------
\* build_stage_layer, the prologue

\* else: print("Using existing stage layer")
BuildStageLayerHit ==
    /\ pc = "prologue"
    /\ IsDir(layer)
    /\ log' = log \o <<Ev("prologue"), Ev("hit")>>
    /\ pc' = "entered"
    /\ UNCHANGED <<options, part_data, lf, layer, layer_pkgs, stage, prime, archive,
                   actions, nexta, ctx, raised, exitCode, pre, prev>>

\* client.images.build or image.save raises
EngineBuildFails ==
    /\ pc = "prologue"
    /\ ~IsDir(layer)
    /\ log' = log \o <<Ev("prologue"), Ev("miss"), Ev("engine_build")>>
    /\ Exit("DockerException")
    /\ UNCHANGED <<options, part_data, lf, layer, layer_pkgs, stage, prime, archive,
                   actions, nexta, ctx, pre, prev>>

\* the image is built from the parts' stage packages and written to image_data.tar
EngineBuild ==
    /\ pc = "prologue"
    /\ ~IsDir(layer)
    /\ archive' = ImageData(part_data)
    /\ log' = log \o <<Ev("prologue"), Ev("miss"), Ev("engine_build"),
                       Ev("engine_export")>>
    /\ pc' = "extract"
    /\ UNCHANGED <<options, part_data, lf, layer, layer_pkgs, stage, prime, actions,
                   nexta, ctx, raised, exitCode, pre, prev>>

\* image.extractfile("manifest.json") with no such member: TarFile.getmember
\* raises KeyError before the test of line 132 is reached
ExtractNoManifest ==
    /\ pc = "extract"
    /\ archive.member = "absent"
    /\ log' = log \o <<Ev("extract"), Ev("extract_failed")>>
    /\ Exit("KeyError")
    /\ UNCHANGED <<options, part_data, lf, layer, layer_pkgs, stage, prime, archive,
                   actions, nexta, ctx, pre, prev>>

\* image.extractfile("manifest.json") returns None for a member that is no
\* regular file: raise RuntimeError("docker image missing manifest file")
ExtractManifestNotFile ==
    /\ pc = "extract"
    /\ archive.member = "other"
    /\ log' = log \o <<Ev("extract"), Ev("extract_failed")>>
    /\ Exit("RuntimeError")
    /\ UNCHANGED <<options, part_data, lf, layer, layer_pkgs, stage, prime, archive,
                   actions, nexta, ctx, pre, prev>>

\* extract_stage_layer: layer_tar.extract raises on the member after the k-th
ExtractFails ==
    /\ pc = "extract"
    /\ archive.member = "file"
    /\ \E k \in 0..(NumEntries(archive) - 1) :
          layer' = Extracted(archive, k)
    /\ layer_pkgs' = IF IsDir(layer') THEN part_data ELSE {}
    /\ log' = log \o <<Ev("extract"), Ev("extract_failed")>>
    /\ Exit("OSError")
    /\ UNCHANGED <<options, part_data, lf, stage, prime, archive,
                   actions, nexta, ctx, pre, prev>>

\* extract_stage_layer: every member of the top layer is extracted
ExtractStageLayer ==
    /\ pc = "extract"
    /\ archive.member = "file"
    /\ layer' = Extracted(archive, NumEntries(archive))
    /\ layer_pkgs' = IF IsDir(layer') THEN part_data ELSE {}
    /\ log' = Append(log, Ev("extract"))
    /\ pc' = "copy_stage"
    /\ UNCHANGED <<options, part_data, lf, stage, prime, archive, actions,
                   nexta, ctx, raised, exitCode, pre, prev>>

\* shutil.copytree(_LAYER_DIR, project_info.stage_dir, copy_function=os.link)
CopyStage ==
    /\ pc = "copy_stage"
    /\ \E linkOK \in BOOLEAN :
          LET r == CopyTree(layer, stage, linkOK)
          IN  /\ stage' = r.dir
              /\ IF r.ok
                 THEN /\ pc' = "copy_prime"
                      /\ log' = Append(log, Ev("copy_stage"))
                      /\ UNCHANGED <<raised, exitCode>>
                 ELSE /\ log' = log \o <<Ev(r.err), Ev("copy_stage_failed")>>
                      /\ Exit("OSError")
    /\ UNCHANGED <<options, part_data, lf, layer, layer_pkgs, prime, archive, actions,
                   nexta, ctx, pre, prev>>

\* shutil.copytree(_LAYER_DIR, project_info.prime_dir, copy_function=os.link)
CopyPrime ==
    /\ pc = "copy_prime"
    /\ \E linkOK \in BOOLEAN :
          LET r == CopyTree(layer, prime, linkOK)
          IN  /\ prime' = r.dir
              /\ IF r.ok
                 THEN /\ pc' = "entered"
                      /\ log' = Append(log, Ev("copy_prime"))
                      /\ UNCHANGED <<raised, exitCode>>
                 ELSE /\ log' = log \o <<Ev(r.err), Ev("copy_prime_failed")>>
                      /\ Exit("OSError")
    /\ UNCHANGED <<options, part_data, lf, layer, layer_pkgs, stage, archive, actions,
                   nexta, ctx, pre, prev>>

----------------------------------------------------------------------------
\* _do_step: the body of the with statement

\* ... as ctx: the prologue has returned and the context is held
ContextEntered ==
    /\ pc = "entered"
    /\ ctx' = TRUE
    /\ log' = Append(log, Ev("ctx_acquire"))
    /\ pc' = "execute"
    /\ UNCHANGED <<options, part_data, lf, layer, layer_pkgs, stage, prime, archive,
                   actions, nexta, raised, exitCode, pre, prev>>

\* What the manager records when a step of the plan has run; the pull step
\* records the stage packages it pulled.
Executed(l, s, pkgs) ==
    [step   |-> IF s > l.step THEN s ELSE l.step,
     assets |-> IF s = PULL THEN pkgs ELSE l.assets]

\* Variant of the loop without the test for skips.
SkipActionExecutes ==
    /\ pc = "execute"
    /\ nexta <= Len(actions)
    /\ actions[nexta].type = "skip"
    /\ lf' = Executed(lf, actions[nexta].step, part_data)
    /\ nexta' = nexta + 1
    /\ log' = log \o <<EvStep("print", actions[nexta].step),
                       EvStep("execute", actions[nexta].step)>>
    /\ UNCHANGED <<pc, options, part_data, layer, layer_pkgs, stage, prime, archive,
                   actions, ctx, raised, exitCode, pre, prev>>

\* for a in actions: a skip is passed over
SkipAction ==
    /\ pc = "execute"
    /\ nexta <= Len(actions)
    /\ actions[nexta].type = "skip"
    /\ nexta' = nexta + 1
    /\ UNCHANGED <<pc, options, part_data, lf, layer, layer_pkgs, stage, prime, archive,
                   actions, ctx, log, raised, exitCode, pre, prev>>

\* print(f"Execute: ..."); ctx.execute(a)
ExecuteAction ==
    /\ pc = "execute"
    /\ nexta <= Len(actions)
    /\ actions[nexta].type # "skip"
    /\ lf' = Executed(lf, actions[nexta].step, part_data)
    /\ nexta' = nexta + 1
    /\ log' = log \o <<EvStep("print", actions[nexta].step),
                       EvStep("execute", actions[nexta].step)>>
    /\ UNCHANGED <<pc, options, part_data, layer, layer_pkgs, stage, prime, archive,
                   actions, ctx, raised, exitCode, pre, prev>>

\* Variant in which a raising ctx.execute leaves the context held.
ExecuteFailsLeaks ==
    /\ pc = "execute"
    /\ nexta <= Len(actions)
    /\ actions[nexta].type # "skip"
    /\ log' = log \o <<EvStep("print", actions[nexta].step),
                       EvStep("execute_failed", actions[nexta].step)>>
    /\ Exit("PartsError")
    /\ UNCHANGED <<options, part_data, lf, layer, layer_pkgs, stage, prime, archive,
                   actions, nexta, ctx, pre, prev>>

\* ctx.execute(a) raises: the with statement releases the context and the
\* exception goes on to main.  Whether the manager runs the registered
\* epilogue when the context is left this way is its own choice.
ExecuteFails ==
    /\ pc = "execute"
    /\ nexta <= Len(actions)
    /\ actions[nexta].type # "skip"
    /\ \E runsEpilogue \in BOOLEAN :
          log' = log \o <<EvStep("print", actions[nexta].step),
                          EvStep("execute_failed", actions[nexta].step),
                          Ev("ctx_release")>>
                     \o (IF runsEpilogue
                         THEN <<Ev("epilogue"), Ev("final_image")>>
                         ELSE <<>>)
    /\ ctx' = FALSE
    /\ Exit("PartsError")
    /\ UNCHANGED <<options, part_data, lf, layer, layer_pkgs, stage, prime, archive,
                   actions, nexta, pre, prev>>

\* the with statement ends after the last action
ExitContext ==
    /\ pc = "execute"
    /\ nexta > Len(actions)
    /\ ctx' = FALSE
    /\ log' = Append(log, Ev("ctx_release"))
    /\ pc' = "epilogue"
    /\ UNCHANGED <<options, part_data, lf, layer, layer_pkgs, stage, prime, archive,
                   actions, nexta, raised, exitCode, pre, prev>>

----------------------------------------------------------------------------
\* create_final_image, the epilogue

CreateFinalImage ==
    /\ pc = "epilogue"
    /\ log' = log \o <<Ev("epilogue"), Ev("final_image")>>
    /\ Exit("none")
    /\ UNCHANGED <<options, part_data, lf, layer, layer_pkgs, stage, prime, archive,
                   actions, nexta, ctx, pre, prev>>

\* client.images.build raises
CreateFinalImageFails ==
    /\ pc = "epilogue"
    /\ log' = log \o <<Ev("epilogue"), Ev("final_image_failed")>>
    /\ Exit("DockerException")
    /\ UNCHANGED <<options, part_data, lf, layer, layer_pkgs, stage, prime, archive,
                   actions, nexta, ctx, pre, prev>>

----------------------------------------------------------------------------
Next ==
    \/ Invoke
    \/ OpenFails
    \/ SchemaFails
    \/ LoadParts
    \/ PackageCheck
    \/ DoCleanPlanOnly
    \/ DoCleanInvalidPart
    \/ DoClean
    \/ PlanInvalidPart
    \/ DoStepPlan
    \/ DoStepPlanOnly
    \/ EnterContext
    \/ BuildStageLayerHit
    \/ EngineBuildFails
    \/ EngineBuild
    \/ ExtractFails
    \/ ExtractStageLayer
    \/ CopyStage
    \/ CopyPrime
    \/ ContextEntered
    \/ SkipAction
    \/ ExecuteAction
    \/ ExecuteFails
    \/ ExitContext
    \/ CreateFinalImage
    \/ CreateFinalImageFails
    \/ ProcessExit

Spec == Init /\ [][Next]_vars

----------------------------------------------------------------------------
\* build_stage_layer from extract_stage_layer on, on any archive the engine may
\* have exported

\* the layer tars an archive holds, the layers of the first manifest entry
\* being 1..n, and the layer only a second manifest entry lists
MaxLayers == 3

OtherLayer == MaxLayers + 1

LayerFiles == PackageSets \cup {{0}}

Archives ==
    {[written |-> TRUE, member |-> m, manifest |-> mf, content |-> c] :
        m \in {"file", "other", "absent"},
        mf \in {<< [i \in 1..n |-> i] >> : n \in 1..MaxLayers}
                \cup {<< [i \in 1..n |-> i], <<OtherLayer>> >> : n \in 1..MaxLayers},
        c \in [1..OtherLayer -> LayerFiles]}

\* `prime` in an empty project directory has planned, entered the context and
\* run the prologue up to image.save; image_data.tar is any archive.
InitExtract ==
    /\ pc = "extract"
    /\ options = NoOptions
    /\ part_data = 1..MaxPkgs
    /\ lf = NoState
    /\ layer = NoDir
    /\ layer_pkgs = {}
    /\ stage = NoDir
    /\ prime = NoDir
    /\ archive \in Archives
    /\ actions = Plan(NoState, PRIME)
    /\ nexta = 1
    /\ ctx = FALSE
    /\ log = <<Ev("start"), Ev("loaded"), Ev("clean_pull"), Ev("reload_state"),
               Ev("plan"), Ev("ctx_enter"), Ev("prologue"), Ev("miss"),
               Ev("engine_build"), Ev("engine_export")>>
    /\ raised = "none"
    /\ exitCode = -1
    /\ pre = Snapshot(NoState, NoDir, {}, NoDir, NoDir)
    /\ prev = [kind |-> "none", hadLayer |-> FALSE]

NextExtract ==
    \/ ExtractNoManifest
    \/ ExtractManifestNotFile
    \/ ExtractFails
    \/ ExtractStageLayer
    \/ CopyStage
    \/ CopyPrime

SpecExtract == InitExtract /\ [][NextExtract]_vars

----------------------------------------------------------------------------
\* Vocabulary of the properties

Running == pc # "idle"

\* a step command that is to execute its plan
StepRun == Running /\ IsStepCommand(options) /\ ~options.plan_only

\* a step command that is only to print its plan
PlanOnlyRun == Running /\ IsStepCommand(options) /\ options.plan_only

\* the package check of this invocation is over
Checked == Running /\ pc \notin {"load", "check"} /\ Has("loaded")

\* the package set of this invocation differs from the one recorded before it
Changed == part_data # pre.lf.assets

\* the files of the layer that installing pkgs adds to the base image
LayerOf(pkgs) == ImageData(pkgs).content[TopLayer(ImageData(pkgs))]

\* build_stage_layer has returned in this invocation
Materialized == Has("hit") \/ Has("copy_prime")

NoEngineNoExtract ==
    ~Has("engine_build") /\ ~Has("engine_export") /\ ~Has("extract")

\* the lines printed for actions, in order
Prints == SelectSeq(log, LAMBDA e : e.ev \in {"print", "print_no_actions"})

----------------------------------------------------------------------------
\* C1: a step command that runs right after a step command that completed
\* on the same package set calls neither the engine nor the extractor, does
\* not touch the cache directory, takes the hit path when its Stage
\* Materializer runs, and leaves stage and prime as the first run left them.
\* (A step command that completed has recorded its package set, so "the same
\* package set" is the recorded one.)
C1_CacheHit ==
    /\ (pc = "exit" /\ LastKind = "step") =>
          /\ GetStateAssets(lf) = part_data
          /\ IsDir(layer)
    /\ (StepRun /\ prev.kind = "step" /\ part_data = GetStateAssets(pre.lf)) =>
          /\ NoEngineNoExtract
          /\ ~Has("rmtree_layer")
          /\ ~Has("miss")
          /\ layer = pre.layer
          /\ stage = pre.stage
          /\ prime = pre.prime

C1_Witness ==
    /\ pc = "exit" /\ StepRun /\ exitCode = 0
    /\ prev.kind = "step" /\ part_data = GetStateAssets(pre.lf)
    /\ part_data # {}
    /\ Has("hit")
    /\ stage = Dir(LayerOf(part_data)) /\ prime = stage

----------------------------------------------------------------------------
\* an earlier invocation recorded a package set and built the cache, and this
\* one resolves a different set
SwitchedSet == IsDir(pre.layer) /\ pre.lf.step >= PULL /\ Changed

\* C2 as stated: the invocation that follows a change of the package set
\* removes the cache directory, rebuilds with the engine and extracts again.
C2_AlwaysRebuilds ==
    (pc = "exit" /\ Has("loaded") /\ SwitchedSet) =>
        /\ Has("rmtree_layer")
        /\ Has("engine_build")
        /\ Has("extract")

\* C2, amended: the invocation that follows a change of the package set
\* removes the cache directory before anything creates a new one; a step
\* command that is to execute and names only declared parts then runs the
\* Stage Materializer on the miss path, which calls the engine build, and
\* extraction follows once build and export succeeded.
C2_RemovesThenRebuilds ==
    (Checked /\ SwitchedSet) =>
        /\ Has("rmtree_layer")
        /\ Before("rmtree_layer", "engine_build")
        /\ Before("rmtree_layer", "extract")
        /\ (~Has("extract") /\ pc # "exit") => ~IsDir(layer)
        /\ (pc = "exit" /\ StepRun /\ ValidParts(PartNames(options))) =>
              Has("prologue")
        /\ Has("prologue") => (Has("miss") /\ Has("engine_build") /\ ~Has("hit"))
        /\ Has("engine_export") => (pc = "extract" \/ Has("extract"))

C2_Witness ==
    /\ pc = "exit" /\ exitCode = 0 /\ StepRun /\ SwitchedSet
    /\ pre.layer.files # {} /\ part_data # {}
    /\ Has("rmtree_layer") /\ Has("extract")
    /\ layer = Dir(LayerOf(part_data))

----------------------------------------------------------------------------
\* C3: a step command with plan-only leaves stage, prime, the cache directory
\* and the recorded step state as they were when it started.
C3_PlanOnlyNoSideEffects ==
    PlanOnlyRun =>
        /\ lf = pre.lf
        /\ layer = pre.layer
        /\ stage = pre.stage
        /\ prime = pre.prime

----------------------------------------------------------------------------
\* C4: a step command with plan-only never acquires the execution context,
\* executes no action and runs neither hook; once planned, it prints the
\* actions of the plan that are no skips and ends with exit code 0.
C4_PlanOnlyTerminal ==
    PlanOnlyRun =>
        /\ ~ctx
        /\ ~Has("ctx_enter") /\ ~Has("ctx_acquire")
        /\ ~Has("execute") /\ ~Has("execute_failed")
        /\ ~Has("prologue") /\ ~Has("epilogue")
        /\ ~Has("engine_build") /\ ~Has("final_image")
        /\ pc \in {"load", "check", "dispatch", "plan_only", "exit"}
        /\ (pc = "exit" /\ Has("plan")) =>
              /\ exitCode = 0
              /\ raised = "none"
              /\ Prints = Printed(actions)

C4_Witness ==
    /\ PlanOnlyRun /\ pc = "exit" /\ exitCode = 0
    /\ Len(NonSkip(actions)) >= 2
    /\ Len(Prints) = Len(NonSkip(actions))

----------------------------------------------------------------------------
\* C5: whenever the Stage Materializer has completed, on the hit path or on
\* the miss path, stage and prime each hold exactly what the cache directory
\* holds.
C5_PropagatedOnBothPaths ==
    (Running /\ Materialized) =>
        /\ IsDir(layer)
        /\ stage = layer
        /\ prime = layer

----------------------------------------------------------------------------
\* C6: when hard-linking from the cache directory fails, propagation falls
\* back to a copy: the Stage Materializer completes without error and stage
\* and prime hold the contents of the cache directory.
C6_HardLinkFallback ==
    (Running /\ Has("link_failed")) =>
        /\ ~Has("copy_stage_failed") /\ ~Has("copy_prime_failed")
        /\ raised # "OSError"
        /\ pc \in {"copy_prime", "entered", "execute", "epilogue", "exit"} =>
              stage = layer

----------------------------------------------------------------------------
\* C7: the cache directory is absent or holds the complete layer of the
\* package set that was active when it was created.
C7_CacheCompleteOrAbsent ==
    IsDir(layer) => layer.files = LayerOf(layer_pkgs)

----------------------------------------------------------------------------
\* C8: a clean without part names that runs to the end has asked the
\* lifecycle manager to clean all parts and leaves no cache directory; the
\* Stage Materializer of the step command after it takes the miss path: it
\* calls the engine build and, once build and export succeeded, extracts.
C8_CleanRemovesCache ==
    /\ (pc = "exit" /\ options.command = "clean" /\ options.parts = {}
            /\ ~options.plan_only /\ Has("loaded")) =>
          /\ exitCode = 0
          /\ Has("print_clean_all") /\ Has("lf_clean")
          /\ lf = NoState
          /\ ~IsDir(layer)
    /\ (StepRun /\ prev.kind = "clean") =>
          /\ ~IsDir(pre.layer)
          /\ ~Has("hit")
          /\ Has("prologue") => (Has("miss") /\ Has("engine_build"))
          /\ Has("engine_export") => (pc = "extract" \/ Has("extract"))

C8_Witness ==
    /\ StepRun /\ ParseStep(options.command) = PRIME /\ pc = "exit"
    /\ prev.kind = "clean" /\ prev.hadLayer
    /\ Has("engine_build") /\ Has("engine_export") /\ Has("extract")
    /\ exitCode = 0

----------------------------------------------------------------------------
\* C9: a clean with plan-only that gets as far as the command ends with exit
\* code 4; _do_clean has not asked the lifecycle manager to clean anything and
\* has not removed the cache directory: the recorded state and the cache are
\* as the package check left them.
C9_CleanPlanOnlyRefused ==
    (pc = "exit" /\ options.command = "clean" /\ options.plan_only
         /\ Has("loaded")) =>
        /\ exitCode = 4
        /\ raised = "ValueError"
        /\ ~Has("lf_clean") /\ ~Has("rmtree_layer_clean") /\ ~Has("print_clean_all")
        /\ ~Changed => (lf = pre.lf /\ layer = pre.layer
                          /\ stage = pre.stage /\ prime = pre.prime)
        /\ IsDir(layer) => layer = pre.layer

C9_Witness ==
    /\ pc = "exit" /\ options.command = "clean" /\ options.plan_only
    /\ options.parts = {}
    /\ exitCode = 4
    /\ IsDir(layer) /\ lf.step = PRIME

----------------------------------------------------------------------------
\* C10: in a step command the package check clears the pull state exactly
\* when the resolved package set differs from the recorded one, and removes
\* the cache directory exactly when it then exists; nothing else in the
\* invocation, no failure in particular, removes the cache directory or
\* clears recorded state.
C10_InvalidationOnlyOnChange ==
    (Running /\ IsStepCommand(options)) =>
        /\ Checked => (Has("clean_pull") <=> Changed)
        /\ Checked => (Has("rmtree_layer") <=> (Changed /\ IsDir(pre.layer)))
        /\ ~Checked => (~Has("clean_pull") /\ ~Has("rmtree_layer")
                          /\ lf = pre.lf /\ layer = pre.layer)
        /\ ~Has("rmtree_layer") => (IsDir(pre.layer) => layer = pre.layer)
        /\ ~Has("clean_pull") =>
              /\ lf.step >= pre.lf.step
              /\ pre.lf.step >= PULL => GetStateAssets(lf) = GetStateAssets(pre.lf)
        /\ ~Has("rmtree_layer_clean") /\ ~Has("lf_clean")

C10_Witness ==
    /\ pc = "exit" /\ IsStepCommand(options) /\ exitCode # 0
    /\ ~Changed /\ pre.lf.step >= PULL /\ IsDir(pre.layer)
    /\ Has("execute_failed")
    /\ layer = pre.layer /\ lf.step > pre.lf.step

----------------------------------------------------------------------------
\* what the log calls a failure
FailureEvents ==
    {"open_failed", "schema_failed", "invalid_part", "clean_refused",
     "extract_failed", "copy_stage_failed", "copy_prime_failed", "execute_failed",
     "final_image_failed"}

\* planning and execution, as the log records them
ProgressEvents == {"plan", "print", "print_no_actions", "ctx_acquire", "execute"}

\* C11: an invocation ends with one exit code, which its outcome determines:
\* 0 when it succeeded (a printed plan and a clean included), 1 after a
\* filesystem error, 2 after an invalid part specification, 3 after an
\* invalid part name, 4 after any other value error; a failure ends the
\* invocation, nothing is planned or executed after it.
C11_ExitCodeMapping ==
    /\ (Running /\ pc # "exit") =>
          /\ exitCode = -1
          /\ raised = "none"
          /\ \A i \in 1..Len(log) : log[i].ev \notin FailureEvents
    /\ \A i \in {k \in 1..Len(log) : log[k].ev \in FailureEvents} :
          \A j \in (i + 1)..Len(log) : log[j].ev \notin ProgressEvents
    /\ pc = "exit" =>
          /\ exitCode \in 0..4
          /\ exitCode = 0 <=> raised = "none"
          /\ exitCode = 0 => \A i \in 1..Len(log) : log[i].ev \notin FailureEvents
          /\ raised = "OSError" => exitCode = 1
          /\ Has("open_failed") => (raised = "OSError" /\ exitCode = 1)
          /\ (Has("copy_stage_failed") \/ Has("copy_prime_failed")) =>
                (raised = "OSError" /\ exitCode = 1)
          /\ Has("schema_failed") => exitCode = 2
          /\ Has("invalid_part") => exitCode = 3
          /\ Has("clean_refused") => exitCode = 4
          /\ (PlanOnlyRun /\ Has("plan")) => exitCode = 0
          /\ Has("lf_clean") => exitCode = 0
          /\ (Has("final_image") /\ ~Has("execute_failed")) => exitCode = 0

C11_Witness ==
    /\ pc = "exit" /\ exitCode = 3 /\ raised = "InvalidPartName"
    /\ IsStepCommand(options) /\ Has("loaded") /\ ~Has("plan")
    /\ prev.kind = "clean"

----------------------------------------------------------------------------
\* extract_stage_layer has returned
ExtractionDone == Has("extract") /\ ~Has("extract_failed")

\* the files of the layers the manifest entry e lists before position n
FilesBelow(e, n) ==
    UNION {archive.content[archive.manifest[e][i]] : i \in 1..(n - 1)}

\* C12: extraction into an absent destination leaves there exactly the
\* entries of the last layer the first manifest entry lists: no file that
\* only an earlier layer of that entry holds, and none that only a layer of a
\* later manifest entry holds.
C12_TopLayerOnly ==
    ExtractionDone =>
        LET layers == archive.manifest[1]
            top    == archive.content[layers[Len(layers)]]
        IN  /\ layer.files = top
            /\ \A f \in FilesBelow(1, Len(layers)) \ top : f \notin layer.files
            /\ \A e \in 2..Len(archive.manifest) :
                  \A f \in FilesBelow(e, Len(archive.manifest[e]) + 1) \ top :
                      f \notin layer.files

C12_Witness ==
    /\ ExtractionDone /\ pc = "entered"
    /\ Len(archive.manifest) = 2 /\ Len(archive.manifest[1]) = MaxLayers
    /\ archive.content[1] = {0}
    /\ archive.content[2] = {MaxPkgs}
    /\ archive.content[MaxLayers] = {1}
    /\ archive.content[OtherLayer] = 1..MaxPkgs
    /\ layer = Dir({1})

----------------------------------------------------------------------------
\* C13: when the top layer of the archive has no entries, extraction leaves
\* an existing, empty cache directory, and the Stage Materializer goes on to
\* complete without error, with stage and prime populated with nothing.
C13_EmptyLayerNoError ==
    (Running /\ ExtractionDone /\ NumEntries(archive) = 0) =>
        /\ IsDir(layer) /\ layer.files = {}
        /\ ~Has("copy_stage_failed") /\ ~Has("copy_prime_failed")
        /\ raised # "OSError"
        /\ Has("copy_prime") => (stage = Dir({}) /\ prime = Dir({}))

----------------------------------------------------------------------------
\* C14: when the exported archive has no manifest.json member, extraction
\* fails with the runtime error "docker image missing manifest file"; nothing
\* is extracted, the cache directory stays absent and the invocation ends
\* with nothing propagated to stage or prime.
C14_MissingManifestRuntimeError ==
    (archive.written /\ archive.member = "absent" /\ pc # "extract") =>
        /\ pc = "exit"
        /\ raised = "RuntimeError"
        /\ ~IsDir(layer)
        /\ stage = pre.stage /\ prime = pre.prime
        /\ ~Has("copy_stage") /\ ~Has("copy_prime")

----------------------------------------------------------------------------
\* how often the log has the event e
Count(e) == Cardinality({i \in 1..Len(log) : log[i].ev = e})

\* C16: the execution context is held only while the body of the with
\* statement runs, and it is released, once, on every way out of that body:
\* when the last action is done and when an action's execute raises in the
\* middle of the plan; no invocation ends with the context held.
C16_ContextReleased ==
    /\ ctx => (pc = "execute" /\ Has("ctx_acquire") /\ ~Has("ctx_release"))
    /\ pc \in {"exit", "idle"} => ~ctx
    /\ (Running /\ Has("ctx_acquire") /\ pc # "execute") =>
          /\ Has("ctx_release")
          /\ ~ctx
    /\ Has("execute_failed") => Has("ctx_release")
    /\ Has("ctx_release") =>
          /\ Count("ctx_acquire") = 1
          /\ Count("ctx_release") = 1
          /\ Before("ctx_acquire", "ctx_release")

C16_Witness ==
    /\ pc = "exit" /\ ~ctx /\ raised = "PartsError"
    /\ \E i \in 1..Len(log) : log[i] = EvStep("execute", PULL)
    /\ \E i \in 1..Len(log) : log[i] = EvStep("execute_failed", BUILD)
    /\ Has("ctx_release")

----------------------------------------------------------------------------
\* what the loop of _do_step printed and executed, in order
Executions ==
    SelectSeq(log, LAMBDA e : e.ev \in {"print", "execute", "execute_failed"})

\* C17: a step command that executes its plan prints and then executes the
\* actions of the plan that are no skips, in plan order and each once; a
\* failing action is the last one executed, and when the loop ends without a
\* failure every such action was executed.
C17_ExecutionOrder ==
    StepRun =>
        LET ex == Executions
            ns == NonSkip(actions)
        IN  /\ Len(ex) % 2 = 0
            /\ Len(ex) <= 2 * Len(ns)
            /\ \A k \in 1..Len(ex) :
                  /\ ex[k].step = ns[(k + 1) \div 2].step
                  /\ k % 2 = 1 => ex[k].ev = "print"
                  /\ k % 2 = 0 => ex[k].ev \in {"execute", "execute_failed"}
                  /\ ex[k].ev = "execute_failed" => (k = Len(ex) /\ pc = "exit")
            /\ \A i, j \in 1..Len(ns) : i < j => ns[i].step < ns[j].step
            /\ (Has("ctx_release") /\ ~Has("execute_failed")) => Len(ex) = 2 * Len(ns)
            /\ ~Has("ctx_acquire") => ex = <<>>

C17_Witness ==
    /\ StepRun /\ pc = "exit" /\ exitCode = 0
    /\ Len(actions) = PRIME
    /\ actions[PULL].type = "skip" /\ actions[BUILD].type = "skip"
    /\ Executions = <<EvStep("print", STAGE), EvStep("execute", STAGE),
                      EvStep("print", PRIME), EvStep("execute", PRIME)>>

----------------------------------------------------------------------------
\* C18: when the package check finds the resolved set different from the
\* recorded one, the pull state is cleared and the cache directory is absent
\* before anything is planned, so the plan runs pull again; a step command
\* that then runs to the end has recorded the resolved set, and the
\* invocation after a completed step command, on the set it recorded, takes
\* the unchanged branch: no state is cleared and no cache removed.
C18_InvalidationConverges ==
    /\ (Checked /\ Changed /\ pc = "dispatch") =>
          /\ lf = NoState
          /\ ~IsDir(layer)
    /\ (Checked /\ Changed /\ Has("plan")) =>
          /\ Before("clean_pull", "plan")
          /\ \A i \in 1..Len(actions) : actions[i].type = "run"
          /\ actions[1].step = PULL
    /\ (pc = "exit" /\ StepRun /\ exitCode = 0) =>
          /\ lf.step >= PULL
          /\ GetStateAssets(lf) = part_data
    /\ (Checked /\ prev.kind = "step" /\ part_data = pre.lf.assets) =>
          /\ Has("unchanged")
          /\ ~Has("clean_pull") /\ ~Has("rmtree_layer")
          /\ pc = "dispatch" => (lf = pre.lf /\ layer = pre.layer)

C18_Witness ==
    /\ pc = "exit" /\ StepRun /\ exitCode = 0
    /\ prev.kind = "step" /\ pre.lf.step = PRIME /\ IsDir(pre.layer)
    /\ Changed /\ part_data # {}
    /\ Has("clean_pull") /\ Has("rmtree_layer")
    /\ EvStep("execute", PULL) \in {log[i] : i \in 1..Len(log)}
    /\ GetStateAssets(lf) = part_data

----------------------------------------------------------------------------
\* C19: whenever the Stage Materializer takes the hit path, the cache
\* directory it reuses was created from the package set this invocation
\* resolves.
C19_HitIsCoherent ==
    (Running /\ Has("hit")) => layer_pkgs = part_data

----------------------------------------------------------------------------
\* the invocation before this one was a step command whose materialization
\* failed after it had created the cache directory, and this one resolves the
\* same package set
AfterFailedMaterialization ==
    prev.kind = "matfail" /\ IsDir(pre.layer) /\ part_data = pre.layer_pkgs

=============================================================================
